---------------------------- MODULE Spec2Model ----------------------------
(***************************************************************************)
(* Model of timelapse-server (main.go): the update cycle                   *)
(*   DetectExistingTimelapses -> exclusion list -> ReadImageFileInfos ->   *)
(*   FilterAndGroupByDay -> GenerateDailyTimelapses                        *)
(* run once at startup and again on every timer tick.                      *)
(*                                                                         *)
(* File names are sequences of tokens: one token per decimal digit, "-",   *)
(* "+", a word without dots, or a dotted piece such as ".avi".  A time is  *)
(* a record [d, s, loc]: whole days and seconds since the Unix epoch and   *)
(* the location its calendar fields are read in.  A brightness is an       *)
(* integer number of hundredths.                                           *)
(***************************************************************************)
EXTENDS Integers, Sequences, FiniteSets, TLC

(***************************************************************************)
(* Bounds of the model.                                                    *)
(***************************************************************************)
MaxFiles == 2      \* entries of the image directory
MaxOut   == 1      \* entries of the output directory when the program starts
MaxTicks == 1      \* timer ticks that are followed
MaxLen   == 3      \* records of a sequence handed to FilterAndGroupByDay alone

(***************************************************************************)
(* Program constants.                                                      *)
(***************************************************************************)
BrightnessThreshold == 25          \* 0.25, in hundredths
LocalOffset == -28800              \* TZ=America/Los_Angeles (standard time), seconds east of UTC

(***************************************************************************)
(* Strings as token sequences.  The conversions that are applied to one    *)
(* value again and again (Ext, ParseInt, ImageFileToTimestamp,             *)
(* CivilFromDays) are functions: a function's argument is evaluated once.  *)
(***************************************************************************)
DigitTokens == {"0", "1", "2", "3", "4", "5", "6", "7", "8", "9"}

DigitVal(t) ==
    CASE t = "0" -> 0 [] t = "1" -> 1 [] t = "2" -> 2 [] t = "3" -> 3
      [] t = "4" -> 4 [] t = "5" -> 5 [] t = "6" -> 6 [] t = "7" -> 7
      [] t = "8" -> 8 [] t = "9" -> 9

DigitTok(n) ==
    CASE n = 0 -> "0" [] n = 1 -> "1" [] n = 2 -> "2" [] n = 3 -> "3"
      [] n = 4 -> "4" [] n = 5 -> "5" [] n = 6 -> "6" [] n = 7 -> "7"
      [] n = 8 -> "8" [] n = 9 -> "9"

\* Byte order of the tokens' distinguishing first characters:
\* '+' < '-' < '.' < digits < letters; dotted tokens by their second byte.
TokRank(t) ==
    CASE t = "+" -> 0
      [] t = "-" -> 1
      [] t = "-image.jpg" -> 2
      [] t = ".avi" -> 3
      [] t = ".html" -> 4
      [] t = ".jpg" -> 5
      [] t = ".txt" -> 6
      [] t \in DigitTokens -> 10 + DigitVal(t)
      [] t = "invalid" -> 30
      [] t = "notes" -> 31

\* The extension a token ends a name with ("" for a token without a dot).
TokExt(t) ==
    CASE t = "-image.jpg" -> ".jpg"
      [] t \in {".avi", ".html", ".jpg", ".txt"} -> t
      [] OTHER -> ""

\* filepath.Ext: the suffix of the name from its last dot on.
Ext[name \in Seq(STRING)] ==
    LET dotted == {i \in 1..Len(name) : TokExt(name[i]) # ""}
    IN  IF dotted = {} THEN ""
        ELSE LET last == CHOOSE i \in dotted : \A j \in dotted : j <= i
             IN  IF last = Len(name) THEN TokExt(name[last])
                 ELSE "other"     \* ".avi017..." and the like: no known extension

\* strings.Replace(s, old, "", -1) for an old string that is one token.
Replace(s, old) == SelectSeq(s, LAMBDA t : t # old)

\* Byte-wise comparison of two names (the order ioutil.ReadDir lists in).
RECURSIVE NameLess(_, _)
NameLess(a, b) ==
    IF b = <<>> THEN FALSE
    ELSE IF a = <<>> THEN TRUE
    ELSE IF Head(a) = Head(b) THEN NameLess(Tail(a), Tail(b))
    ELSE TokRank(Head(a)) < TokRank(Head(b))

\* The number the first n digits of s write.
RECURSIVE DigitsValue(_, _)
DigitsValue(s, n) ==
    IF n = 0 THEN 0 ELSE 10 * DigitsValue(s, n - 1) + DigitVal(s[n])

AllDigits(s) == \A i \in 1..Len(s) : s[i] \in DigitTokens

\* strconv.ParseInt(s, 10, 64): an optional sign, then one or more digits.
ParseInt[s \in Seq(STRING)] ==
    LET signed == s # <<>> /\ Head(s) \in {"+", "-"}
        body   == IF signed THEN Tail(s) ELSE s
    IN  IF body = <<>> \/ ~AllDigits(body) THEN [ok |-> FALSE, val |-> 0]
        ELSE [ok |-> TRUE,
              val |-> IF signed /\ Head(s) = "-" THEN 0 - DigitsValue(body, Len(body))
                      ELSE DigitsValue(body, Len(body))]

RECURSIVE Digits(_)
Digits(n) == IF n < 10 THEN <<DigitTok(n)>> ELSE Digits(n \div 10) \o <<DigitTok(n % 10)>>

\* fmt's %02d: the decimal digits, zero-padded to a width of two (sign included).
Pad2(n) ==
    IF n < 0 THEN <<"-">> \o Digits(0 - n)
    ELSE IF n < 10 THEN <<"0">> \o Digits(n)
    ELSE Digits(n)

(***************************************************************************)
(* Times and the calendar (package time).                                  *)
(***************************************************************************)
\* Days since 1970-01-01 of a proleptic Gregorian date.
DaysFromCivil(y, m, d) ==
    LET y2  == IF m <= 2 THEN y - 1 ELSE y
        era == y2 \div 400
        yoe == y2 - era * 400
        mp  == IF m > 2 THEN m - 3 ELSE m + 9
        doy == (153 * mp + 2) \div 5 + d - 1
        doe == yoe * 365 + yoe \div 4 - yoe \div 100 + doy
    IN  era * 146097 + doe - 719468

\* The date [y, m, d] of a day number.
CivilFromDays[z \in Int] ==
    LET z2  == z + 719468
        era == z2 \div 146097
        doe == z2 - era * 146097
        yoe == (doe - doe \div 1460 + doe \div 36524 - doe \div 146096) \div 365
        doy == doe - (365 * yoe + yoe \div 4 - yoe \div 100)
        mp  == (5 * doy + 2) \div 153
        d   == doy - (153 * mp + 2) \div 5 + 1
        m   == IF mp < 10 THEN mp + 3 ELSE mp - 9
        y   == yoe + era * 400
    IN  [y |-> IF m <= 2 THEN y + 1 ELSE y, m |-> m, d |-> d]

IsLeap(y) == y % 4 = 0 /\ (y % 100 # 0 \/ y % 400 = 0)

DaysIn(y, m) ==
    IF m = 2 THEN (IF IsLeap(y) THEN 29 ELSE 28)
    ELSE IF m \in {4, 6, 9, 11} THEN 30 ELSE 31

ZoneOffset(loc) == IF loc = "UTC" THEN 0 ELSE LocalOffset

\* time.Unix(i, 0): a time in the local zone.
UnixTime(i) == [d |-> i \div 86400, s |-> i % 86400, loc |-> "Local"]

\* t.Year(), t.Month(), t.Day(): the date read in t's own location.
Date(t) == CivilFromDays[t.d + ((t.s + ZoneOffset(t.loc)) \div 86400)]

\* t.After(u): instants compared, whatever the locations.
After(t, u) == t.d > u.d \/ (t.d = u.d /\ t.s > u.s)


(***************************************************************************)
(* Timestamp codec.                                                        *)
(***************************************************************************)
ParseTimestamp(timestamp) ==
    LET i == ParseInt[timestamp]
    IN  IF ~i.ok THEN [ok |-> FALSE, t |-> UnixTime(0)]
        ELSE [ok |-> TRUE, t |-> UnixTime(i.val)]

\* Variant: the year written with its last two digits only.
FormatDate_shortYear(t) ==
    LET c == Date(t) IN Pad2(c.y % 100) \o <<"-">> \o Pad2(c.m) \o <<"-">> \o Pad2(c.d)

FormatDate(t) ==
    LET c == Date(t) IN Pad2(c.y) \o <<"-">> \o Pad2(c.m) \o <<"-">> \o Pad2(c.d)

ImageFileToTimestamp[fname \in Seq(STRING)] == ParseTimestamp(Replace(fname, "-image.jpg"))

\* Variant: only the day of the month compared.
TimesOnSameDay_dayOnly(t1, t2) == Date(t1).d = Date(t2).d

TimesOnSameDay(t1, t2) == Date(t1) = Date(t2)

\* time.Parse("2006-01-02", s): four digits, "-", two digits, "-", two digits,
\* a month of 1..12 and a day of that month; the result is in UTC.
ParseDate(dateStr) ==
    LET shaped == /\ Len(dateStr) = 10
                  /\ AllDigits(SubSeq(dateStr, 1, 4))
                  /\ dateStr[5] = "-"
                  /\ AllDigits(SubSeq(dateStr, 6, 7))
                  /\ dateStr[8] = "-"
                  /\ AllDigits(SubSeq(dateStr, 9, 10))
        y == DigitsValue(SubSeq(dateStr, 1, 4), 4)
        m == DigitsValue(SubSeq(dateStr, 6, 7), 2)
        d == DigitsValue(SubSeq(dateStr, 9, 10), 2)
        bad == [ok |-> FALSE, t |-> [d |-> 0, s |-> 0, loc |-> "UTC"]]
    IN  IF ~shaped THEN bad
        ELSE IF m < 1 \/ m > 12 \/ d < 1 \/ d > DaysIn(y, m) THEN bad
        ELSE [ok |-> TRUE, t |-> [d |-> DaysFromCivil(y, m, d), s |-> 0, loc |-> "UTC"]]

(***************************************************************************)
(* Sorting ImageFileInfos (sort.Sort on a short slice: insertion sort).    *)
(***************************************************************************)
\* Variant: the comparison the other way round.
Less_reversed(slice, i, j) == After(slice[i].Timestamp, slice[j].Timestamp)

Less(slice, i, j) == After(slice[j].Timestamp, slice[i].Timestamp)

Swap(slice, i, j) == [slice EXCEPT ![i] = slice[j], ![j] = slice[i]]

RECURSIVE SiftDown(_, _)
SiftDown(slice, j) ==
    IF j > 1 /\ Less(slice, j, j - 1) THEN SiftDown(Swap(slice, j, j - 1), j - 1)
    ELSE slice

RECURSIVE InsertionSort(_, _)
InsertionSort(slice, i) ==
    IF i > Len(slice) THEN slice ELSE InsertionSort(SiftDown(slice, i), i + 1)

SortInfos(slice) == InsertionSort(slice, 2)

(***************************************************************************)
(* Directories.                                                            *)
(***************************************************************************)
\* ioutil.ReadDir: the names of a directory, sorted by name.
RECURSIVE ReadDir(_)
ReadDir(names) ==
    IF names = {} THEN <<>>
    ELSE LET first == CHOOSE n \in names : \A o \in names \ {n} : NameLess(n, o)
         IN  <<first>> \o ReadDir(names \ {first})

\* The entries of the image directory, as listed.
ListEntries(dir) ==
    LET names == ReadDir({e.name : e \in dir})
    IN  [i \in 1..Len(names) |-> CHOOSE e \in dir : e.name = names[i]]

\* ./image_brightness.py on one file: the number it prints, or a failure.
CalculateImageBrightness(file) ==
    IF ~file.scores THEN [ok |-> FALSE, b |-> 0]
    ELSE [ok |-> TRUE, b |-> file.bright]

(***************************************************************************)
(* The scanner's per-file decisions (processImage).                        *)
(***************************************************************************)
\* Variant: the exclusion list is not looked at.
Excluded_never(tm, excludeDates) == FALSE

\* The linear scan of the exclusion list.
Excluded(tm, excludeDates) ==
    \E k \in 1..Len(excludeDates) : TimesOnSameDay(tm, excludeDates[k])

\* Variant: the size filter left out.
Ignored_noSize(file) == Ext[file.name] # ".jpg"

\* The size and extension filters.
Ignored(file) == file.size = 0 \/ Ext[file.name] # ".jpg"

\* What processImage does with one entry: "skip" (return before scoring),
\* "fatal" (log.Fatal on a decode or scoring error) or "append".
Outcome(file, excludeDates) ==
    LET tm == ImageFileToTimestamp[file.name]
    IN  IF Ignored(file) THEN "skip"
        ELSE IF ~tm.ok THEN "fatal"
        ELSE IF Excluded(tm.t, excludeDates) THEN "skip"
        ELSE IF ~CalculateImageBrightness(file).ok THEN "fatal"
        ELSE "append"

\* The ImageFileInfo appended for a surviving entry.
MakeInfo(file) ==
    [Filename   |-> file.name,
     Timestamp  |-> ImageFileToTimestamp[file.name].t,
     Brightness |-> CalculateImageBrightness(file).b]

(***************************************************************************)
(* Grouping.                                                               *)
(***************************************************************************)
\* Variant: the threshold itself counted as dark.
Dark_inclusive(info) == info.Brightness <= BrightnessThreshold

Dark(info) == info.Brightness < BrightnessThreshold

\* One iteration of FilterAndGroupByDay's loop.
GroupStep(grouped, info) ==
    IF Dark(info) THEN grouped
    ELSE IF Len(grouped) > 0
            /\ LET prevDayGroup == grouped[Len(grouped)]
                   prev == prevDayGroup[Len(prevDayGroup)]
               IN  TimesOnSameDay(prev.Timestamp, info.Timestamp)
         THEN [grouped EXCEPT ![Len(grouped)] = Append(@, info)]
         ELSE Append(grouped, <<info>>)

RECURSIVE GroupFrom(_, _, _)
GroupFrom(imgInfos, i, grouped) ==
    IF i > Len(imgInfos) THEN grouped
    ELSE GroupFrom(imgInfos, i + 1, GroupStep(grouped, imgInfos[i]))

FilterAndGroupByDay(imgInfos) == GroupFrom(imgInfos, 1, <<>>)

(***************************************************************************)
(* Generation and detection.                                               *)
(***************************************************************************)
\* The day key of a group: that of its first image.
DayStr(images) == FormatDate(images[1].Timestamp)

\* The name of the video GenerateTimelapseForImages writes into outDir.
OutName(images) == DayStr(images) \o <<".avi">>

\* The name of the manifest it writes into the cycle's scratch directory.
ManifestName(images) == DayStr(images) \o <<".txt">>

\* What the loop of DetectExistingTimelapses does on an entry that is no .avi.
NotVideo(acc) == <<>>              \* "return nil"

RECURSIVE DetectFrom(_, _, _)
DetectFrom(names, i, videoTimestamps) ==
    IF i > Len(names) THEN videoTimestamps
    ELSE LET ext == Ext[names[i]]
             t   == ParseDate(Replace(names[i], ext))
         IN  IF ext # ".avi" THEN NotVideo(videoTimestamps)
             ELSE IF ~t.ok THEN DetectFrom(names, i + 1, videoTimestamps)
             ELSE DetectFrom(names, i + 1, Append(videoTimestamps, t.t))

\* DetectExistingTimelapses on a listing of the output directory.
DetectExistingTimelapses(names) == DetectFrom(names, 1, <<>>)

\* updateAll's exclusion list: all but the last of the existing dates.
ExcludeDates(existing) ==
    IF Len(existing) > 0 THEN SubSeq(existing, 1, Len(existing) - 1) ELSE existing

(***************************************************************************)
(* The directories the model draws from.                                   *)
(***************************************************************************)
ImageName(i) == Digits(i) \o <<"-image.jpg">>

\* 28799 is 1969-12-31 23:59:59 local; 28800 is 1970-01-01 00:00:00 local.
ImageFiles ==
    { [name |-> ImageName(28799),             size |-> 1, bright |-> 36, scores |-> TRUE],
      [name |-> ImageName(28800),             size |-> 1, bright |-> 36, scores |-> TRUE],
      [name |-> <<"0">> \o ImageName(28800),  size |-> 1, bright |-> 10, scores |-> TRUE],
      [name |-> ImageName(28801),             size |-> 0, bright |-> 36, scores |-> TRUE],
      [name |-> ImageName(28798),             size |-> 1, bright |-> 0,  scores |-> FALSE],
      [name |-> <<"invalid", "-image.jpg">>, size |-> 1, bright |-> 36, scores |-> TRUE],
      [name |-> <<"notes", ".txt">>,         size |-> 1, bright |-> 36, scores |-> TRUE] }

OutNames ==
    { <<"1", "9", "6", "9", "-", "1", "2", "-", "3", "1", ".avi">>,
      <<"1", ".avi", "9", "7", "0", "-", "0", "1", "-", "0", "1", ".avi">>,
      <<"notes", ".avi">>,
      <<"notes", ".html">> }

Runners == {"startup", "timer"}

(***************************************************************************)
(* State.                                                                  *)
(***************************************************************************)
VARIABLES
    imgDir,        \* the image directory: a set of entries
    outDir,        \* the output directory: a set of names
    parallel,      \* ReadImageFileInfos' scoring mode
    halted,        \* the process has exited
    fatalLogged,   \* log.Fatal has been called
    ticks,         \* timer ticks delivered
    horizon,       \* timer ticks that are followed
    pc,            \* where each runner's updateAll stands
    outFiles,      \* DetectExistingTimelapses' listing of outDir
    existing,      \* its result
    excludeDates,  \* updateAll's exclusion list
    files,         \* ReadImageFileInfos' listing of imgDir
    wk,            \* each processImage call: "start", "locked" or "done"
    mutex,         \* the call holding the mutex, 0 for none
    wg,            \* the scan's WaitGroup counter
    imageInfos,    \* the collected records
    scored,        \* how often the scorer has been run on each entry of the listing
    grouped,       \* FilterAndGroupByDay's result
    tasks,         \* each generation task: "ready", "encoding", "ok" or "failed"
    gwg,           \* the generation's WaitGroup counter
    sample,        \* the argument of a function applied on its own
    result         \* [done, val]: whether it has been applied, and its value

env   == <<imgDir, parallel, horizon, sample, result>>
scan  == <<files, wk, mutex, wg, imageInfos, scored>>
gen   == <<grouped, tasks, gwg>>
det   == <<outFiles, existing, excludeDates>>
vars  == <<imgDir, outDir, parallel, halted, fatalLogged, ticks, horizon, pc, outFiles,
           existing, excludeDates, files, wk, mutex, wg, imageInfos, scored,
           grouped, tasks, gwg, sample, result>>

Subsets(S, n) == {T \in SUBSET S : Cardinality(T) <= n}

\* The runners' state before anything has run.
Idle ==
    /\ halted = FALSE
    /\ fatalLogged = FALSE
    /\ ticks = 0
    /\ pc = [r \in Runners |-> IF r = "startup" THEN "detect" ELSE "wait"]
    /\ outFiles = [r \in Runners |-> <<>>]
    /\ existing = [r \in Runners |-> <<>>]
    /\ excludeDates = [r \in Runners |-> <<>>]
    /\ files = [r \in Runners |-> <<>>]
    /\ wk = [r \in Runners |-> <<>>]
    /\ mutex = [r \in Runners |-> 0]
    /\ wg = [r \in Runners |-> 0]
    /\ imageInfos = [r \in Runners |-> <<>>]
    /\ scored = [r \in Runners |-> <<>>]
    /\ grouped = [r \in Runners |-> <<>>]
    /\ tasks = [r \in Runners |-> <<>>]
    /\ gwg = [r \in Runners |-> 0]

Init ==
    /\ imgDir \in Subsets(ImageFiles, MaxFiles)
    /\ outDir \in Subsets(OutNames, MaxOut)
    /\ parallel \in BOOLEAN
    /\ horizon = MaxTicks
    /\ sample = <<>>
    /\ result = [done |-> FALSE, val |-> <<>>]
    /\ Idle

(***************************************************************************)
(* log.Fatal: the message is logged and the process exits.                 *)
(***************************************************************************)
\* Variant: the message is logged and the process goes on.
LogFatal_logOnly == FALSE

LogFatal == TRUE

Fatal ==
    /\ halted' = LogFatal
    /\ fatalLogged' = TRUE
    /\ UNCHANGED <<env, outDir, ticks, pc, det, scan, gen>>

(***************************************************************************)
(* The timer loop: each tick runs updateAll, one after the other.          *)
(***************************************************************************)
\* Variant: a tick is taken only when no cycle is running.
TickReady_exclusive == \A r \in Runners : pc[r] \in {"wait", "done"}

\* Variant: every tick starts a cycle, whether or not the last one has returned.
TickReady_unserialized == TRUE

\* The loop is at its receive from the ticker: the updateAll() call of the
\* tick before has returned.
TickReady == pc["timer"] \in {"wait", "done"}

Tick ==
    /\ ~halted
    /\ TickReady
    /\ ticks < horizon
    /\ ticks' = ticks + 1
    /\ pc' = [pc EXCEPT !["timer"] = "detect"]
    /\ UNCHANGED <<env, outDir, halted, fatalLogged, det, scan, gen>>

(***************************************************************************)
(* updateAll up to the scan's fan-out: DetectExistingTimelapses, the       *)
(* exclusion list, and ReadImageFileInfos' listing of the image directory  *)
(* (which no step of the program changes).                                 *)
(***************************************************************************)
BeginOk(r) ==
    LET names   == ReadDir(outDir)
        found   == DetectExistingTimelapses(names)
        listing == ListEntries(imgDir)
    IN  /\ outFiles' = [outFiles EXCEPT ![r] = names]
        /\ existing' = [existing EXCEPT ![r] = found]
        /\ excludeDates' = [excludeDates EXCEPT ![r] = ExcludeDates(found)]
        /\ files' = [files EXCEPT ![r] = listing]
        /\ wk' = [wk EXCEPT ![r] = [i \in 1..Len(listing) |-> "start"]]
        /\ mutex' = [mutex EXCEPT ![r] = 0]
        /\ wg' = [wg EXCEPT ![r] = Len(listing)]
        /\ imageInfos' = [imageInfos EXCEPT ![r] = <<>>]
        /\ scored' = [scored EXCEPT ![r] = [i \in 1..Len(listing) |-> 0]]
        /\ pc' = [pc EXCEPT ![r] = "scan"]
        /\ UNCHANGED <<env, outDir, halted, fatalLogged, ticks, gen>>

\* Either ioutil.ReadDir may fail, and the process exits.
BeginCycle(r) ==
    /\ ~halted
    /\ pc[r] = "detect"
    /\ \E listed \in BOOLEAN : IF listed THEN BeginOk(r) ELSE Fatal

\* The sequential loop calls processImage on the entries in turn; the
\* concurrent one starts a goroutine for each.
MayRun(r, i) == parallel \/ \A j \in 1..(i - 1) : wk[r][j] = "done"

\* Variant: the lock is no lock.
CanLock_unguarded(m) == TRUE

\* mutex.Lock() returns only when no call holds the mutex.
CanLock(m) == m = 0

\* Variant: an early return that leaves the WaitGroup as it is.
SkipDone_missing(n) == n

\* The deferred wg.Done() of a call that returns early.
SkipDone(n) == n - 1

\* processImage returns before scoring: an empty file, another extension,
\* an excluded day.
ProcessSkip(r, i) ==
    /\ ~halted
    /\ pc[r] = "scan"
    /\ wk[r][i] = "start"
    /\ MayRun(r, i)
    /\ Outcome(files[r][i], excludeDates[r]) = "skip"
    /\ wk' = [wk EXCEPT ![r][i] = "done"]
    /\ wg' = [wg EXCEPT ![r] = SkipDone(@)]
    /\ UNCHANGED <<env, outDir, halted, fatalLogged, ticks, pc, det, gen,
                   files, mutex, imageInfos, scored>>

\* The name does not decode, or the scorer fails.
ProcessFatal(r, i) ==
    /\ ~halted
    /\ pc[r] = "scan"
    /\ wk[r][i] = "start"
    /\ MayRun(r, i)
    /\ Outcome(files[r][i], excludeDates[r]) = "fatal"
    /\ scored' = IF ImageFileToTimestamp[files[r][i].name].ok
                 THEN [scored EXCEPT ![r][i] = @ + 1]     \* the scorer ran, and failed
                 ELSE scored
    /\ halted' = LogFatal
    /\ fatalLogged' = TRUE
    /\ UNCHANGED <<env, outDir, ticks, pc, det, gen, files, wk, mutex, wg, imageInfos>>

\* The entry is scored and the call takes the mutex.
ProcessScore(r, i) ==
    /\ ~halted
    /\ pc[r] = "scan"
    /\ wk[r][i] = "start"
    /\ MayRun(r, i)
    /\ Outcome(files[r][i], excludeDates[r]) = "append"
    /\ CanLock(mutex[r])
    /\ mutex' = [mutex EXCEPT ![r] = i]
    /\ wk' = [wk EXCEPT ![r][i] = "locked"]
    /\ scored' = [scored EXCEPT ![r][i] = @ + 1]
    /\ UNCHANGED <<env, outDir, halted, fatalLogged, ticks, pc, det, gen,
                   files, wg, imageInfos>>

\* Under the mutex: append, unlock; then the deferred wg.Done().
ProcessAppend(r, i) ==
    /\ ~halted
    /\ pc[r] = "scan"
    /\ wk[r][i] = "locked"
    /\ imageInfos' = [imageInfos EXCEPT ![r] = Append(@, MakeInfo(files[r][i]))]
    /\ mutex' = [mutex EXCEPT ![r] = 0]
    /\ wk' = [wk EXCEPT ![r][i] = "done"]
    /\ wg' = [wg EXCEPT ![r] = @ - 1]
    /\ UNCHANGED <<env, outDir, halted, fatalLogged, ticks, pc, det, gen, files,
                   scored>>

\* Variant: the scan goes on to its sort without waiting for its calls.
JoinReady_noWait(r) == TRUE

\* wg.Wait() in the concurrent mode, the end of the loop in the sequential one.
JoinReady(r) ==
    IF parallel THEN wg[r] = 0 ELSE \A i \in 1..Len(files[r]) : wk[r][i] = "done"

\* sort.Sort and the return, updateAll's call of FilterAndGroupByDay, and
\* GenerateDailyTimelapses up to its fan-out: one goroutine for each group.
JoinOk(r) ==
    LET sorted == SortInfos(imageInfos[r])
        groups == FilterAndGroupByDay(sorted)
    IN  /\ imageInfos' = [imageInfos EXCEPT ![r] = sorted]
        /\ grouped' = [grouped EXCEPT ![r] = groups]
        /\ tasks' = [tasks EXCEPT ![r] = [g \in 1..Len(groups) |-> "ready"]]
        /\ gwg' = [gwg EXCEPT ![r] = Len(groups)]
        /\ pc' = [pc EXCEPT ![r] = "tasks"]
        /\ UNCHANGED <<env, outDir, halted, fatalLogged, ticks, det, files, wk,
                       mutex, wg, scored>>

\* ioutil.TempDir may fail, and the process exits.
ScanJoin(r) ==
    /\ ~halted
    /\ pc[r] = "scan"
    /\ JoinReady(r)
    /\ \E made \in BOOLEAN : IF made THEN JoinOk(r) ELSE Fatal

(***************************************************************************)
(* GenerateDailyTimelapses' tasks.                                         *)
(***************************************************************************)
\* Variant: a failing task takes the unfinished tasks of its cycle down with it.
TaskFailed_abortsSiblings(ts, g) ==
    [h \in DOMAIN ts |-> IF ts[h] = "ok" THEN "ok" ELSE "failed"]

\* A task whose generation returned an error: logged, then the deferred wg.Done().
TaskFailed(ts, g) == [ts EXCEPT ![g] = "failed"]

\* GenerateTimelapseForImages up to the encoder's start: the manifest.
TaskStart(r, g) ==
    /\ ~halted
    /\ pc[r] = "tasks"
    /\ tasks[r][g] = "ready"
    /\ \E created \in BOOLEAN :
          IF created
          THEN /\ tasks' = [tasks EXCEPT ![r][g] = "encoding"]
               /\ UNCHANGED gwg
          ELSE /\ tasks' = [tasks EXCEPT ![r] = TaskFailed(@, g)]
               /\ gwg' = [gwg EXCEPT ![r] = @ - 1]
    /\ UNCHANGED <<env, outDir, halted, fatalLogged, ticks, pc, det, scan, grouped>>

\* The encoder exits: with the video written, or with an error.
TaskFinish(r, g) ==
    /\ ~halted
    /\ pc[r] = "tasks"
    /\ tasks[r][g] = "encoding"
    /\ \E encoded \in BOOLEAN :
          IF encoded
          THEN /\ tasks' = [tasks EXCEPT ![r][g] = "ok"]
               /\ outDir' = outDir \cup {OutName(grouped[r][g])}
          ELSE /\ tasks' = [tasks EXCEPT ![r] = TaskFailed(@, g)]
               /\ UNCHANGED outDir
    /\ gwg' = [gwg EXCEPT ![r] = @ - 1]
    /\ UNCHANGED <<env, halted, fatalLogged, ticks, pc, det, scan, grouped>>

\* Variant: a failed task ends the wait.
GenWaitOver_onFailure(r) ==
    gwg[r] = 0 \/ \E g \in DOMAIN tasks[r] : tasks[r][g] = "failed"

\* wg.Wait() returns when the counter is zero.
GenWaitOver(r) == gwg[r] = 0

\* wg.Wait() returns and updateAll returns: its locals are gone.
GenJoin(r) ==
    /\ ~halted
    /\ pc[r] = "tasks"
    /\ GenWaitOver(r)
    /\ pc' = [pc EXCEPT ![r] = "done"]
    /\ outFiles' = [outFiles EXCEPT ![r] = <<>>]
    /\ existing' = [existing EXCEPT ![r] = <<>>]
    /\ excludeDates' = [excludeDates EXCEPT ![r] = <<>>]
    /\ files' = [files EXCEPT ![r] = <<>>]
    /\ wk' = [wk EXCEPT ![r] = <<>>]
    /\ mutex' = [mutex EXCEPT ![r] = 0]
    /\ wg' = [wg EXCEPT ![r] = 0]
    /\ imageInfos' = [imageInfos EXCEPT ![r] = <<>>]
    /\ scored' = [scored EXCEPT ![r] = <<>>]
    /\ grouped' = [grouped EXCEPT ![r] = <<>>]
    /\ tasks' = [tasks EXCEPT ![r] = <<>>]
    /\ gwg' = [gwg EXCEPT ![r] = 0]
    /\ UNCHANGED <<env, outDir, halted, fatalLogged, ticks>>

Next ==
    \/ Tick
    \/ \E r \in Runners : BeginCycle(r)
    \/ \E r \in Runners : \E g \in 1..Len(tasks[r]) : TaskStart(r, g)
    \/ \E r \in Runners : \E g \in 1..Len(tasks[r]) : TaskFinish(r, g)
    \/ \E r \in Runners : GenJoin(r)
    \/ \E r \in Runners : \E i \in 1..Len(files[r]) : ProcessAppend(r, i)
    \/ \E r \in Runners : \E i \in 1..Len(files[r]) : ProcessSkip(r, i)
    \/ \E r \in Runners : \E i \in 1..Len(files[r]) : ProcessScore(r, i)
    \/ \E r \in Runners : \E i \in 1..Len(files[r]) : ProcessFatal(r, i)
    \/ \E r \in Runners : ScanJoin(r)

Spec == Init /\ [][Next]_vars

\* The program started on an empty output directory.
InitLive == Init /\ outDir = {}

\* The same, with one more timer tick followed.
InitTicks ==
    /\ imgDir \in Subsets(ImageFiles, MaxFiles)
    /\ outDir = {}
    /\ parallel \in BOOLEAN
    /\ horizon = MaxTicks + 1
    /\ sample = <<>>
    /\ result = [done |-> FALSE, val |-> <<>>]
    /\ Idle

SpecTicks == InitTicks /\ [][Next]_vars

\* The scheduler runs every goroutine that can take a step, and the scorer and
\* the encoder end: a step that stays possible is taken.
SpecLive == InitLive /\ [][Next]_vars /\ WF_vars(Next)

(***************************************************************************)
(* FilterAndGroupByDay applied on its own to every sorted sequence of at   *)
(* most MaxLen records.                                                    *)
(***************************************************************************)
\* 1969-12-31 23:59:59, 1970-01-01 00:00:00, 1970-01-01 05:53:20 and
\* 1970-02-01 00:00:00, local time.
SampleStamps == {28799, 28800, 50000, 2707200}

SampleBrightness == {24, 25, 26}

SampleInfos ==
    { [Filename |-> ImageName(i), Timestamp |-> UnixTime(i), Brightness |-> b] :
        i \in SampleStamps, b \in SampleBrightness }

SeqsUpTo(S, n) == UNION {[1..k -> S] : k \in 0..n}

\* sort.IsSorted: no record is less than the one before it.
IsSorted(slice) == \A k \in 2..Len(slice) : ~Less(slice, k, k - 1)

InitGroup ==
    /\ imgDir = {}
    /\ outDir = {}
    /\ parallel = FALSE
    /\ horizon = MaxTicks
    /\ sample \in {q \in SeqsUpTo(SampleInfos, MaxLen) : IsSorted(q)}
    /\ result = [done |-> FALSE, val |-> <<>>]
    /\ Idle

GroupApply ==
    /\ ~result.done
    /\ result' = [done |-> TRUE, val |-> FilterAndGroupByDay(sample)]
    /\ UNCHANGED <<imgDir, outDir, parallel, horizon, sample, halted, fatalLogged,
                   ticks, pc, det, scan, gen>>

NextGroup == GroupApply

SpecGroup == InitGroup /\ [][NextGroup]_vars

(***************************************************************************)
(* FormatDate, ParseDate and TimesOnSameDay applied on their own to every  *)
(* pair of sampled times.                                                  *)
(***************************************************************************)
SampleYears == {999, 1000, 1970, 9999, 10000}

SampleMonths == {1, 2, 12}

\* One second before and the first second of a local day.
SampleSeconds == {28799, 28800}

\* The times time.Unix and time.Parse return: the first two days of the
\* sampled months, in the local zone and in UTC.
SampleTimes ==
    { [d |-> DaysFromCivil(y, m, dd), s |-> sec, loc |-> l] :
        y \in SampleYears, m \in SampleMonths,
        dd \in {1, 2}, sec \in SampleSeconds, l \in {"Local", "UTC"} }

InitCodec ==
    /\ imgDir = {}
    /\ outDir = {}
    /\ parallel = FALSE
    /\ horizon = MaxTicks
    /\ sample \in SampleTimes \X SampleTimes
    /\ result = [done |-> FALSE, val |-> <<>>]
    /\ Idle

CodecApply ==
    /\ ~result.done
    /\ result' = [done |-> TRUE,
                  val  |-> [key1 |-> FormatDate(sample[1]),
                            key2 |-> FormatDate(sample[2]),
                            same |-> TimesOnSameDay(sample[1], sample[2]),
                            back |-> ParseDate(FormatDate(sample[1]))]]
    /\ UNCHANGED <<imgDir, outDir, parallel, horizon, sample, halted, fatalLogged,
                   ticks, pc, det, scan, gen>>

NextCodec == CodecApply

SpecCodec == InitCodec /\ [][NextCodec]_vars

(***************************************************************************)
(* Properties.                                                             *)
(***************************************************************************)
\* The exclusion list has been computed / the scan has returned.
Detected(r) == pc[r] \in {"scan", "tasks"}
Returned(r) == pc[r] = "tasks"

\* The calendar day of a time, as a day number.
DayNum(t) == t.d + ((t.s + ZoneOffset(t.loc)) \div 86400)

\* The step fails some task that had not failed.
SomeTaskFails ==
    \E r \in Runners : \E g \in DOMAIN tasks[r] :
        /\ g \in DOMAIN tasks'[r]
        /\ tasks[r][g] # "failed"
        /\ tasks'[r][g] = "failed"

\* The step is the return of runner r's GenerateDailyTimelapses.
Returns(r) == pc[r] = "tasks" /\ pc'[r] = "done"

\* At most one task changes in the step, and no task appears or disappears.
OneTaskChanges ==
    /\ \A r \in Runners : DOMAIN tasks'[r] = DOMAIN tasks[r]
    /\ Cardinality({rg \in Runners \X (1..MaxFiles + 1) :
                      /\ rg[2] \in DOMAIN tasks[rg[1]]
                      /\ tasks'[rg[1]][rg[2]] # tasks[rg[1]][rg[2]]}) <= 1

\* C1: when GenerateDailyTimelapses returns, the task of every group has run
\* to its end and every task that did not fail has its video in the output
\* directory; and a step in which a task fails changes no other task, ends no
\* cycle and does not end the process.
C1_FailureIsolation ==
    /\ [][\A r \in Runners : Returns(r) =>
            \A g \in 1..Len(grouped[r]) :
                /\ g \in DOMAIN tasks[r]
                /\ tasks[r][g] \in {"ok", "failed"}
                /\ tasks[r][g] = "ok" => OutName(grouped[r][g]) \in outDir]_vars
    /\ [][SomeTaskFails =>
            /\ OneTaskChanges
            /\ pc' = pc
            /\ halted' = halted
            /\ outDir' = outDir]_vars

\* A generation about to return with a failed task and a successful sibling.
C1_Witness ==
    \E r \in Runners :
        /\ pc[r] = "tasks"
        /\ gwg[r] = 0
        /\ \E g, h \in DOMAIN tasks[r] : tasks[r][g] = "failed" /\ tasks[r][h] = "ok"

\* The videos of a listing: the names with the .avi extension and a stem that
\* parses as a day key.
IsVideo(name) == Ext[name] = ".avi" /\ ParseDate(Replace(name, ".avi")).ok
VideoDate(name) == ParseDate(Replace(name, ".avi")).t

\* The rendered days of a listing that are older than its most recent one.
OlderDays(names) ==
    LET days == {DayNum(VideoDate(names[k])) : k \in {j \in 1..Len(names) : IsVideo(names[j])}}
    IN  {d \in days : \E e \in days : e > d}

\* C2: in every cycle, no image of a day that had a video when the cycle
\* started, other than the most recent such day, is scored, and no task is
\* started for such a day; and the tasks of one day write one video name.
C2_RenderedDaysSkipped ==
    /\ \A r \in Runners : Detected(r) =>
          /\ \A k \in 1..Len(imageInfos[r]) :
                DayNum(imageInfos[r][k].Timestamp) \notin OlderDays(outFiles[r])
          /\ \A i \in 1..Len(files[r]) :
                (wk[r][i] = "locked" /\ ImageFileToTimestamp[files[r][i].name].ok) =>
                    DayNum(ImageFileToTimestamp[files[r][i].name].t)
                        \notin OlderDays(outFiles[r])
    /\ \A r, q \in Runners : \A g \in 1..Len(grouped[r]) : \A h \in 1..Len(grouped[q]) :
          DayNum(grouped[r][g][1].Timestamp) = DayNum(grouped[q][h][1].Timestamp)
              => OutName(grouped[r][g]) = OutName(grouped[q][h])

\* A sequence without its k-th element.
RemoveAt(q, k) == SubSeq(q, 1, k - 1) \o SubSeq(q, k + 1, Len(q))

\* C3: the exclusion list is the list of existing dates without one entry of
\* the latest date (and empty when there is none).
C3_ExcludesAllButLatest ==
    \A r \in Runners : Detected(r) =>
        IF Len(existing[r]) = 0 THEN excludeDates[r] = <<>>
        ELSE \E k \in 1..Len(existing[r]) :
                /\ \A j \in 1..Len(existing[r]) : ~After(existing[r][j], existing[r][k])
                /\ excludeDates[r] = RemoveAt(existing[r], k)

RECURSIVE VideoDates(_)
VideoDates(names) ==
    IF names = <<>> THEN <<>>
    ELSE IF IsVideo(Head(names)) THEN <<VideoDate(Head(names))>> \o VideoDates(Tail(names))
    ELSE VideoDates(Tail(names))

\* C4: DetectExistingTimelapses returns the dates of the listing's videos, in
\* listing order, whatever other entries the listing holds.
C4_DetectSkipsOthers ==
    \A r \in Runners : Detected(r) => existing[r] = VideoDates(outFiles[r])

\* C5: the sequence ReadImageFileInfos returns is sorted ascending by
\* timestamp, in either scoring mode.
C5_ScanSorted ==
    \A r \in Runners : Returned(r) =>
        \A k \in 1..(Len(imageInfos[r]) - 1) :
            ~After(imageInfos[r][k].Timestamp, imageInfos[r][k + 1].Timestamp)

\* The place of a record's entry in the listing.
ListedAt(r, info) == CHOOSE i \in 1..Len(files[r]) : files[r][i].name = info.Filename

\* The concurrent scan has returned two records of different timestamps in an
\* order other than that of the listing.
C5_Witness ==
    \E r \in Runners :
        /\ parallel
        /\ Returned(r)
        /\ \E k \in 1..(Len(imageInfos[r]) - 1) :
              /\ After(imageInfos[r][k + 1].Timestamp, imageInfos[r][k].Timestamp)
              /\ ListedAt(r, imageInfos[r][k]) > ListedAt(r, imageInfos[r][k + 1])

\* An entry that passes the filters of the scan.
Survives(file, excl) ==
    /\ file.size # 0
    /\ Ext[file.name] = ".jpg"
    /\ \A k \in 1..Len(excl) :
          DayNum(ImageFileToTimestamp[file.name].t) # DayNum(excl[k])

\* C6: the returned sequence holds one record for each entry that is not
\* empty, has the .jpg extension and is on no excluded day, and nothing else;
\* the record carries the entry's name, decoded timestamp and score.
C6_ScanExact ==
    \A r \in Runners : Returned(r) =>
        LET kept == {i \in 1..Len(files[r]) : Survives(files[r][i], excludeDates[r])}
        IN  /\ Len(imageInfos[r]) = Cardinality(kept)
            /\ \A i \in kept :
                  \E k \in 1..Len(imageInfos[r]) :
                      imageInfos[r][k] =
                          [Filename   |-> files[r][i].name,
                           Timestamp  |-> UnixTime(ParseInt[Replace(files[r][i].name, "-image.jpg")].val),
                           Brightness |-> files[r][i].bright]

\* A concurrent scan has returned with some entries recorded and others filtered out.
C6_Witness ==
    \E r \in Runners :
        /\ parallel
        /\ Returned(r)
        /\ Len(imageInfos[r]) >= 1
        /\ Len(files[r]) > Len(imageInfos[r])

RECURSIVE Flatten(_)
Flatten(groups) == IF groups = <<>> THEN <<>> ELSE Head(groups) \o Flatten(Tail(groups))

Passes(info) == info.Brightness >= 25

\* C7: on a sorted input, FilterAndGroupByDay produces no empty group, and its
\* groups, concatenated in order, are the input's records of brightness 0.25
\* or more, in the input's order.
C7_GroupsPartitionBright ==
    result.done =>
        /\ \A g \in 1..Len(result.val) : Len(result.val[g]) > 0
        /\ Flatten(result.val) = SelectSeq(sample, Passes)

\* An input with a record at the threshold, one below it, and two groups.
C7_Witness ==
    /\ result.done
    /\ Len(result.val) >= 2
    /\ \E k \in 1..Len(sample) : sample[k].Brightness = 25
    /\ \E k \in 1..Len(sample) : sample[k].Brightness < 25

\* C8: on a sorted input, FilterAndGroupByDay produces one group for each
\* calendar day among the records of brightness 0.25 or more, the members of a
\* group are on one day, and later groups hold later days.
C8_OneGroupPerDay ==
    result.done =>
        LET bright == SelectSeq(sample, Passes)
            days   == {Date(bright[k].Timestamp) : k \in 1..Len(bright)}
        IN  /\ Len(result.val) = Cardinality(days)
            /\ \A g \in 1..Len(result.val) : \A k, l \in 1..Len(result.val[g]) :
                  Date(result.val[g][k].Timestamp) = Date(result.val[g][l].Timestamp)
            /\ \A g, h \in 1..Len(result.val) : g < h =>
                  \A k \in 1..Len(result.val[g]) : \A l \in 1..Len(result.val[h]) :
                      DayNum(result.val[g][k].Timestamp) < DayNum(result.val[h][l].Timestamp)

\* An input whose bright records fall on two days with the same day of the
\* month, and one whose records are all dark is covered by the empty result.
C8_Witness ==
    /\ result.done
    /\ Len(result.val) = 2
    /\ Date(result.val[1][1].Timestamp).d = Date(result.val[2][1].Timestamp).d
    /\ Len(sample) > Len(Flatten(result.val))

\* The records processImage appends when the entries are taken in listing order.
RECURSIVE InListingOrder(_, _)
InListingOrder(listing, excl) ==
    IF listing = <<>> THEN <<>>
    ELSE IF Survives(Head(listing), excl)
         THEN <<MakeInfo(Head(listing))>> \o InListingOrder(Tail(listing), excl)
         ELSE InListingOrder(Tail(listing), excl)

\* C9: what the concurrent scan returns is what the sequential scan returns
\* for the same listing and exclusion list.
C9_ParallelEqualsSequential ==
    \A r \in Runners : (parallel /\ Returned(r)) =>
        imageInfos[r] = SortInfos(InListingOrder(files[r], excludeDates[r]))

\* An entry whose scan cannot go on: its name does not decode, or it is to be
\* scored and the scorer fails.
Unscannable(file, excl) ==
    /\ file.size # 0
    /\ Ext[file.name] = ".jpg"
    /\ \/ ~ParseInt[Replace(file.name, "-image.jpg")].ok
       \/ Survives(file, excl) /\ ~file.scores

\* C10: no call of processImage gets past an entry whose name does not decode
\* or whose scoring fails, and once a fatal error has been logged (such an
\* entry, or a directory that cannot be listed) the process has exited: no
\* step of any cycle follows.
C10_FatalStopsProcess ==
    /\ [](\A r \in Runners : \A i \in 1..Len(files[r]) :
            (Detected(r) /\ Unscannable(files[r][i], excludeDates[r]))
                => wk[r][i] = "start")
    /\ [](fatalLogged => halted)
    /\ [][fatalLogged => UNCHANGED vars]_vars

\* The process has exited with an unscannable entry in a scan while a call
\* of the other runner's scan held its mutex.
C10_Witness ==
    /\ halted
    /\ \E r \in Runners : \E i \in 1..Len(files[r]) :
          /\ pc[r] = "scan"
          /\ Unscannable(files[r][i], excludeDates[r])
          /\ \E q \in Runners \ {r} :
                pc[q] = "scan" /\ \E j \in 1..Len(files[q]) : wk[q][j] = "locked"

\* C11: for every time, ParseDate of its FormatDate succeeds and gives the
\* time's calendar day.
C11_DayKeyRoundTrip ==
    result.done =>
        /\ result.val.back.ok
        /\ Date(result.val.back.t) = Date(sample[1])

\* C12: two times have the same FormatDate exactly when they are on the same
\* calendar day.
C12_DayKeyInjective ==
    result.done =>
        /\ (result.val.key1 = result.val.key2) <=> result.val.same
        /\ result.val.same <=> (Date(sample[1]) = Date(sample[2]))

\* Two instants in different locations with one key, on a year that FormatDate
\* writes with fewer than four digits.
C12_Witness ==
    /\ result.done
    /\ sample[1].loc # sample[2].loc
    /\ sample[1].d # sample[2].d
    /\ result.val.key1 = result.val.key2
    /\ Len(result.val.key1) < 10

\* A generation task whose encoder is running.
Encoding(r, g) == g \in DOMAIN tasks[r] /\ tasks[r][g] = "encoding"

\* C13: the encoders running at one time, in all cycles in progress, write
\* pairwise different output files.
C13_DistinctOutputs ==
    \A r, q \in Runners : \A g \in DOMAIN tasks[r] : \A h \in DOMAIN tasks[q] :
        (<<r, g>> # <<q, h>> /\ Encoding(r, g) /\ Encoding(q, h))
            => OutName(grouped[r][g]) # OutName(grouped[q][h])

\* A cycle that has started and not returned.
Running(r) == pc[r] \in {"detect", "scan", "tasks"}

InSection(r) == {i \in DOMAIN wk[r] : wk[r][i] = "locked"}

\* C15: at most one call of a scan is between mutex.Lock() and
\* mutex.Unlock(), it is the call the mutex records, and while the scan runs
\* its collection changes only in a step of that call, by one appended record.
C15_AppendExclusive ==
    /\ [](\A r \in Runners :
            /\ Cardinality(InSection(r)) <= 1
            /\ \A i \in InSection(r) : mutex[r] = i)
    /\ [][\A r \in Runners :
            (pc[r] = "scan" /\ pc'[r] = "scan" /\ imageInfos'[r] # imageInfos[r]) =>
                \E i \in InSection(r) :
                    /\ wk'[r][i] = "done"
                    /\ \E info \in {MakeInfo(files[r][i])} :
                          imageInfos'[r] = Append(imageInfos[r], info)]_vars

\* A concurrent scan with one call inside the section and another one, with a
\* record to append, before it.
C15_Witness ==
    \E r \in Runners :
        /\ parallel
        /\ pc[r] = "scan"
        /\ \E i, j \in DOMAIN wk[r] :
              /\ wk[r][i] = "locked"
              /\ wk[r][j] = "start"
              /\ Outcome(files[r][j], excludeDates[r]) = "append"

\* C16: a scan goes on to its sort and the grouping only when every one of
\* its processImage calls has returned, and all have returned in every cycle
\* that is past its scan.
C16_ScanJoinBarrier ==
    /\ [](\A r \in Runners : pc[r] = "tasks" =>
            /\ Len(wk[r]) = Len(files[r])
            /\ \A i \in DOMAIN wk[r] : wk[r][i] = "done")
    /\ [][\A r \in Runners : (pc[r] = "scan" /\ pc'[r] # "scan") =>
            \A i \in DOMAIN wk[r] : wk[r][i] = "done"]_vars

\* A concurrent scan whose wait holds: a call has returned, another has not.
C16_Witness ==
    \E r \in Runners :
        /\ parallel
        /\ pc[r] = "scan"
        /\ \E i, j \in DOMAIN wk[r] : i < j /\ wk[r][j] = "done" /\ wk[r][i] # "done"

\* The tasks of runner r that have not reached their end.
Unfinished(r) == {g \in DOMAIN tasks[r] : tasks[r][g] \in {"ready", "encoding"}}

\* C17: GenerateDailyTimelapses returns only when every task of the cycle has
\* ended, in success or in failure; until then the wait holds, whatever tasks
\* have failed, and a failure leaves the other tasks as they are.
C17_GenerationJoin ==
    /\ [](\A r \in Runners : pc[r] = "tasks" => gwg[r] = Cardinality(Unfinished(r)))
    /\ [][\A r \in Runners : Returns(r) => Unfinished(r) = {}]_vars
    /\ [][\A r \in Runners : \A g \in DOMAIN tasks[r] :
            (pc'[r] = "tasks" /\ tasks[r][g] # "failed" /\ tasks'[r][g] = "failed") =>
                \A h \in DOMAIN tasks[r] \ {g} : tasks'[r][h] = tasks[r][h]]_vars

\* A generation waiting with a failed task and a sibling still encoding.
C17_Witness ==
    \E r \in Runners :
        /\ pc[r] = "tasks"
        /\ gwg[r] > 0
        /\ \E g, h \in DOMAIN tasks[r] : tasks[r][g] = "failed" /\ tasks[r][h] = "encoding"

\* An entry that passes every filter before the scoring.
PassesFilters(file, excl) ==
    /\ file.size # 0
    /\ Ext[file.name] = ".jpg"
    /\ ParseInt[Replace(file.name, "-image.jpg")].ok
    /\ \A k \in 1..Len(excl) :
          Date(UnixTime(ParseInt[Replace(file.name, "-image.jpg")].val)) # Date(excl[k])

\* C18: in every scan the scorer is run at most once on an entry, only on an
\* entry that passes the size, extension, decoding and exclusion filters, and
\* once on every such entry whose call has got to its scoring; a call that
\* has returned for an entry that does not pass them has not run it.
C18_ScoredOncePerSurvivor ==
    \A r \in Runners : Detected(r) =>
        /\ DOMAIN scored[r] = DOMAIN files[r]
        /\ \A i \in DOMAIN files[r] :
              /\ scored[r][i] <= 1
              /\ scored[r][i] = 1 => PassesFilters(files[r][i], excludeDates[r])
              /\ wk[r][i] \in {"locked", "done"} =>
                    scored[r][i] = IF PassesFilters(files[r][i], excludeDates[r]) THEN 1 ELSE 0
              /\ (wk[r][i] = "start" /\ ~halted) => scored[r][i] = 0

\* A scan that has returned with an entry scored, an entry on an excluded day
\* that the scorer would have scored, and the latter's call returned.
C18_Witness ==
    \E r \in Runners :
        /\ Returned(r)
        /\ \E i, j \in DOMAIN files[r] :
              /\ scored[r][i] = 1
              /\ scored[r][j] = 0
              /\ files[r][j].size # 0
              /\ files[r][j].scores
              /\ ImageFileToTimestamp[files[r][j].name].ok
              /\ Ext[files[r][j].name] = ".jpg"

\* C19: a tick's cycle starts only when the timer loop has no cycle running
\* (the one of the tick before has returned), every started cycle is the
\* startup cycle or the timer loop's current one, and so at most two cycles
\* are in progress.
C19_TimerCyclesSerialized ==
    /\ [][ticks' # ticks =>
            /\ ticks' = ticks + 1
            /\ ~Running("timer")
            /\ pc'["timer"] = "detect"
            /\ pc'["startup"] = pc["startup"]]_vars
    /\ [][(~Running("timer") /\ pc'["timer"] = "detect") => ticks' = ticks + 1]_vars
    /\ [](Cardinality({r \in Runners : Running(r)})
            <= 1 + ticks - Cardinality({r \in {"timer"} : pc[r] = "done"}))
    /\ [](Cardinality({r \in Runners : Running(r)}) <= 2)

\* The startup cycle and the second tick's cycle are both in their generation.
C19_Witness ==
    /\ ~halted
    /\ ticks = 2
    /\ pc["startup"] = "tasks"
    /\ pc["timer"] = "tasks"
    /\ tasks["startup"] # <<>>
    /\ tasks["timer"] # <<>>

\* The calls of runner r's scan that have not returned.
Pending(r) == {i \in DOMAIN wk[r] : wk[r][i] # "done"}

\* C20: each WaitGroup counts the calls (tasks) that have not signalled their
\* end, so each is signalled once on every path; and every cycle that has
\* started returns, unless a fatal error ends the process.
C20_CyclesComplete ==
    /\ [](\A r \in Runners :
            /\ pc[r] = "scan" => wg[r] = Cardinality(Pending(r))
            /\ pc[r] = "tasks" => gwg[r] = Cardinality(Unfinished(r)) /\ wg[r] = 0)
    /\ \A r \in Runners : Running(r) ~> (pc[r] = "done" \/ halted)

\* Both cycles have returned in the concurrent mode, with a zero-length entry
\* skipped and a video written on the way.
C20_Witness ==
    /\ ~halted
    /\ parallel
    /\ ticks >= 1
    /\ \A r \in Runners : pc[r] = "done"
    /\ \E e \in imgDir : e.size = 0
    /\ \E e \in imgDir : OutName(<<MakeInfo(e)>>) \in outDir

\* The name of the video of the day of t.
VideoOf(t) == FormatDate(t) \o <<".avi">>

\* The listing of the output directory holds the video of the day of t.
VideoListed(r, t) == \E k \in DOMAIN outFiles[r] : outFiles[r][k] = VideoOf(t)

\* An entry the scorer can be run on: not empty, a .jpg, a name that decodes.
Scorable(file) ==
    file.size # 0 /\ Ext[file.name] = ".jpg" /\ ImageFileToTimestamp[file.name].ok

\* C21: in every cycle a day is on the exclusion list only if its video was in
\* the output directory when the cycle listed it; so the images of a day whose
\* video was not there (a day whose generation failed in the cycle before) are
\* not excluded, each is scored by the time its call returns, and the
\* generation has a task for the day when one of them is not dark.
C21_ExcludedOnlyIfVideoExists ==
    \A r \in Runners : Detected(r) =>
        /\ \A k \in DOMAIN excludeDates[r] : VideoListed(r, excludeDates[r][k])
        /\ \A i \in DOMAIN files[r] :
              LET file == files[r][i]
                  tm   == ImageFileToTimestamp[file.name].t
              IN  (Scorable(file) /\ ~VideoListed(r, tm)) =>
                     /\ ~Excluded(tm, excludeDates[r])
                     /\ wk[r][i] = "done" => scored[r][i] = 1
                     /\ (Returned(r) /\ ~Dark(MakeInfo(file))) =>
                           \E g \in DOMAIN grouped[r] : OutName(grouped[r][g]) = VideoOf(tm)

============================================================================
